---- MODULE Spec2Model ----
(***************************************************************************)
(* databank/image_data.py: walk_image_data, a generator that walks a       *)
(* directory tree and yields (metadata, relpath) for every file the DICOM  *)
(* decoder parses, and report_image_data, which folds the yielded pairs    *)
(* into a dictionary of series keyed by SeriesInstanceUID.                 *)
(*                                                                         *)
(* A run is one call of either function.  The directory tree and the       *)
(* decoder's answer for every file are fixed when the call starts.         *)
(***************************************************************************)
EXTENDS Integers, Sequences, FiniteSets, TLC

VARIABLES
    entry,        \* the function the caller called
    force,        \* the caller's force argument
    tree,         \* what os.walk(path) yields: a sequence of [root, files]
    pc,           \* "call", "walk" (generator running), "fold" (a pair was
                  \* yielded), "stop" (generator exhausted), "done"
    wpc,          \* generator position: "start", "dir", "file", "closed"
    di,           \* index into tree of the directory being walked
    fi,           \* index into its files of the next file
    n,            \* walk_image_data's n
    log,          \* the logger's records, in order
    decoded,      \* the calls of read_metadata made so far
    yielded,      \* the pairs yielded so far
    series_dict,  \* report_image_data's series_dict
    timestamp,    \* report_image_data's local timestamp (Unbound until assigned)
    outcome       \* "" while running, "returned", "exhausted" or an exception name

vars == <<entry, force, tree, pc, wpc, di, fi, n, log, decoded, yielded,
          series_dict, timestamp, outcome>>

\* The most files a tree holds.
MaxFiles == 3

(***************************************************************************)
(* Paths are sequences of components.                                      *)
(***************************************************************************)
path == <<"data">>

\* The directories of the tree below path, in os.walk's top-down order.
SubDirs == << <<>>, <<"sub">> >>

\* os.path.join(root, filename)
Join(root, filename) == Append(root, filename)

\* os.path.normpath(os.path.relpath(abspath, start)) for abspath below start
RelPath(abspath, start) == SubSeq(abspath, Len(start) + 1, Len(abspath))

(***************************************************************************)
(* File contents.  A content is named; the decoder decides what it is.     *)
(***************************************************************************)
Contents == {"unreadable", "garbage", "truncated", "A", "B", "X", "nonumber"}

\* The metadata dictionary the decoder extracts from a content it can parse.
\* Dates are day numbers and times are seconds since midnight.
Metadata(c) ==
    CASE c = "A" ->
           [SeriesInstanceUID |-> "S1", SOPInstanceUID |-> "I1", SeriesNumber |-> 1,
            SeriesDescription |-> "T1", ImageType |-> <<"ORIGINAL", "PRIMARY">>,
            AcquisitionDate |-> 1]
      [] c = "B" ->
           [SeriesInstanceUID |-> "S1", SOPInstanceUID |-> "I2", SeriesNumber |-> 1,
            SeriesDescription |-> "T1", ImageType |-> <<"ORIGINAL", "PRIMARY">>,
            AcquisitionDate |-> 3, AcquisitionTime |-> 5, Modality |-> "MR"]
      [] c = "X" ->
           [SeriesInstanceUID |-> "S2", SOPInstanceUID |-> "I1", SeriesNumber |-> 2,
            SeriesDescription |-> "T2", ImageType |-> <<"DERIVED", "DERIVED">>,
            Modality |-> "MR"]
      [] c = "nonumber" ->
           [SeriesInstanceUID |-> "S1", SOPInstanceUID |-> "I2",
            SeriesDescription |-> "T1", ImageType |-> <<"ORIGINAL", "PRIMARY">>,
            AcquisitionDate |-> 2]

\* Content "B" lacks the PART 10 header: it parses in force mode only.
DecodeFailure(c, f) ==
    CASE c = "unreadable" -> "IOError"
      [] c = "garbage"    -> "InvalidDicomError"
      [] c = "truncated"  -> "AttributeError"
      [] c = "B" /\ ~f    -> "InvalidDicomError"
      [] OTHER            -> ""

(***************************************************************************)
(* Directory listings: file names are distinct within a directory.         *)
(***************************************************************************)
Listings ==
    { <<>>, <<"DICOMDIR">>, <<"a">>, <<"DICOMDIR", "a">>, <<"a", "DICOMDIR">>,
      <<"a", "b">>, <<"DICOMDIR", "a", "b">>, <<"a", "DICOMDIR", "b">>,
      <<"a", "b", "DICOMDIR">> }

\* A directory as os.walk reports it: its path and its files, each a name
\* with the content found under it.
Directory(sub, names, contents) ==
    [root  |-> path \o sub,
     files |-> [i \in 1..Len(names) |-> [name |-> names[i], content |-> contents[i]]]]

RECURSIVE TotalFiles(_)
TotalFiles(t) == IF t = <<>> THEN 0 ELSE Len(Head(t).files) + TotalFiles(Tail(t))

Unbound == <<>>
EmptyDict == <<>>

Init ==
    /\ entry \in {"walk_image_data", "report_image_data"}
    /\ force \in BOOLEAN
    /\ \E l1 \in Listings, l2 \in Listings :
         /\ Len(l1) + Len(l2) <= MaxFiles
         /\ \E c1 \in [1..Len(l1) -> Contents], c2 \in [1..Len(l2) -> Contents] :
              tree = << Directory(SubDirs[1], l1, c1), Directory(SubDirs[2], l2, c2) >>
    /\ pc = "call"
    /\ wpc = "start"
    /\ di = 0
    /\ fi = 0
    /\ n = 0
    /\ log = <<>>
    /\ decoded = <<>>
    /\ yielded = <<>>
    /\ series_dict = EmptyDict
    /\ timestamp = Unbound
    /\ outcome = ""


(***************************************************************************)
(* The logger.                                                             *)
(***************************************************************************)
\* One log record: its level, its message, the failure reason str(e) of an
\* error record (the exception's class stands for it), the path it names and,
\* for the completion summary, the file count (elapsed time is not modelled).
LogRecord(level, msg, reason, p, count) ==
    [level |-> level, msg |-> msg, reason |-> reason, path |-> p, count |-> count]

(***************************************************************************)
(* walk_image_data                                                         *)
(***************************************************************************)
\* Variant: the caller's force argument is passed on.
WalkForcePassed == force

\* The force argument walk_image_data receives.
WalkForce == IF entry = "report_image_data" THEN TRUE ELSE force

CurDir == tree[di]
CurFile == CurDir.files[fi]
AbsPath == Join(CurDir.root, CurFile.name)

\* Variant: DICOMDIR files are left out of the count.
CountFilesButDicomdir(k, files) ==
    k + Cardinality({ i \in 1..Len(files) : files[i].name # "DICOMDIR" })

\* Variant: counts one per directory visited.
CountDirs(k, files) == k + 1

\* n += len(files)
CountFiles(k, files) == k + Len(files)

\* Variant: the name is compared in lower case.
IsDicomdirLower(filename) == filename = "dicomdir"

\* if filename == 'DICOMDIR': continue
IsDicomdir(filename) == filename = "DICOMDIR"

\* The name dicom is not bound in the module: only read_metadata is imported.
DicomIsBound == FALSE

\* The except clauses, tried in order, for an exception of class exc raised by
\* read_metadata: the message logged, or the exception that leaves the handler.
\* Evaluating dicom.filereader.InvalidDicomError in the second clause raises
\* NameError when the first clause did not match.
ExceptClauses(exc) ==
    IF exc = "IOError"
    THEN [raises |-> "", msg |-> "cannot read file"]
    ELSE IF ~DicomIsBound
    THEN [raises |-> "NameError", msg |-> ""]
    ELSE IF exc = "InvalidDicomError"
    THEN [raises |-> "", msg |-> "cannot read nonstandard DICOM file"]
    ELSE IF exc = "AttributeError"
    THEN [raises |-> "", msg |-> "missing attribute"]
    ELSE [raises |-> exc, msg |-> ""]

\* The caller starts iterating: report_image_data first binds series_dict.
Call ==
    /\ pc = "call"
    /\ pc' = "walk"
    /\ series_dict' = EmptyDict
    /\ UNCHANGED <<entry, force, tree, wpc, di, fi, n, log, decoded, yielded,
                   timestamp, outcome>>

\* n = 0; start = time.time(); logger.info('start processing files: %s', path)
WalkStart ==
    /\ pc = "walk" /\ wpc = "start"
    /\ n' = 0
    /\ log' = Append(log, LogRecord("info", "start processing files", "", path, 0))
    /\ di' = 1
    /\ wpc' = "dir"
    /\ UNCHANGED <<entry, force, tree, pc, fi, decoded, yielded, series_dict,
                   timestamp, outcome>>

\* for root, dirs, files in os.walk(path): n += len(files)
EnterDir ==
    /\ pc = "walk" /\ wpc = "dir" /\ di <= Len(tree)
    /\ n' = CountFiles(n, CurDir.files)
    /\ fi' = 1
    /\ wpc' = "file"
    /\ UNCHANGED <<entry, force, tree, pc, di, log, decoded, yielded, series_dict,
                   timestamp, outcome>>

\* the inner loop over files is exhausted
LeaveDir ==
    /\ pc = "walk" /\ wpc = "file" /\ fi > Len(CurDir.files)
    /\ di' = di + 1
    /\ wpc' = "dir"
    /\ UNCHANGED <<entry, force, tree, pc, fi, n, log, decoded, yielded,
                   series_dict, timestamp, outcome>>

\* skip DICOMDIR since we are going to read all DICOM files anyway
SkipDicomdir ==
    /\ pc = "walk" /\ wpc = "file" /\ fi <= Len(CurDir.files)
    /\ IsDicomdir(CurFile.name)
    /\ fi' = fi + 1
    /\ UNCHANGED <<entry, force, tree, pc, wpc, di, n, log, decoded, yielded,
                   series_dict, timestamp, outcome>>

ReadGuard ==
    /\ pc = "walk" /\ wpc = "file" /\ fi <= Len(CurDir.files)
    /\ ~IsDicomdir(CurFile.name)

ReadCall == [abspath |-> AbsPath, force |-> WalkForce]
ReadDebug == LogRecord("debug", "read file", "", RelPath(AbsPath, path), 0)

\* read_metadata raises and an except clause logs the failure
ReadFailsLogged ==
    /\ ReadGuard
    /\ DecodeFailure(CurFile.content, WalkForce) # ""
    /\ ExceptClauses(DecodeFailure(CurFile.content, WalkForce)).raises = ""
    /\ decoded' = Append(decoded, ReadCall)
    /\ log' = log \o << ReadDebug,
                        LogRecord("error",
                                  ExceptClauses(DecodeFailure(CurFile.content, WalkForce)).msg,
                                  DecodeFailure(CurFile.content, WalkForce),
                                  RelPath(AbsPath, path), 0) >>
    /\ fi' = fi + 1
    /\ UNCHANGED <<entry, force, tree, pc, wpc, di, n, yielded, series_dict,
                   timestamp, outcome>>

\* read_metadata raises and an exception leaves the handler: the generator is
\* finished by it, and neither caller catches it
ReadFailsRaises ==
    /\ ReadGuard
    /\ DecodeFailure(CurFile.content, WalkForce) # ""
    /\ ExceptClauses(DecodeFailure(CurFile.content, WalkForce)).raises # ""
    /\ decoded' = Append(decoded, ReadCall)
    /\ log' = Append(log, ReadDebug)
    /\ wpc' = "closed"
    /\ pc' = "done"
    /\ outcome' = ExceptClauses(DecodeFailure(CurFile.content, WalkForce)).raises
    /\ UNCHANGED <<entry, force, tree, di, fi, n, yielded, series_dict, timestamp>>

\* else: yield (metadata, relpath)
Yield ==
    /\ ReadGuard
    /\ DecodeFailure(CurFile.content, WalkForce) = ""
    /\ decoded' = Append(decoded, ReadCall)
    /\ log' = Append(log, ReadDebug)
    /\ yielded' = Append(yielded, [content |-> CurFile.content,
                                   relpath |-> RelPath(AbsPath, path)])
    /\ fi' = fi + 1
    /\ pc' = "fold"
    /\ UNCHANGED <<entry, force, tree, wpc, di, n, series_dict, timestamp, outcome>>

\* elapsed = time.time() - start; logger.info('processed %d files in %.2f s: %s')
WalkEnd ==
    /\ pc = "walk" /\ wpc = "dir" /\ di > Len(tree)
    /\ log' = Append(log, LogRecord("info", "processed files", "", path, n))
    /\ wpc' = "closed"
    /\ pc' = "stop"
    /\ UNCHANGED <<entry, force, tree, di, fi, n, decoded, yielded, series_dict,
                   timestamp, outcome>>


(***************************************************************************)
(* report_image_data                                                       *)
(***************************************************************************)
\* collections.Counter: a function from the values counted to their counts.
Incr(c, x) == IF x \in DOMAIN c THEN [c EXCEPT ![x] = @ + 1] ELSE c @@ (x :> 1)

\* Counter.update(iterable), and Counter(iterable) from the empty counter
RECURSIVE CounterUpdate(_, _)
CounterUpdate(c, xs) ==
    IF xs = <<>> THEN c ELSE CounterUpdate(Incr(c, Head(xs)), Tail(xs))

Counter(xs) == CounterUpdate(<<>>, xs)

\* The compulsory metadata, in the order the function reads them.
Compulsory ==
    <<"SeriesInstanceUID", "SOPInstanceUID", "SeriesNumber", "SeriesDescription",
      "ImageType">>

HasCompulsory(md) == \A i \in 1..Len(Compulsory) : Compulsory[i] \in DOMAIN md

\* The keys the loop over the optional metadata leaves out.
NamedKeys ==
    {"SeriesInstanceUID", "SeriesNumber", "SeriesDescription", "SOPInstanceUID",
     "ImageType", "AcquisitionDate", "AcquisitionTime"}

\* A datetime is <<day, seconds>>; datetimes compare in that order.
Combine(date, time) == <<date, time>>
Midnight(date) == <<date, 0>>
Before(t1, t2) == t1[1] < t2[1] \/ (t1[1] = t2[1] /\ t1[2] < t2[2])

\* The local timestamp after the record md: assigned only when the record has
\* an AcquisitionDate, and otherwise left as the previous iteration left it.
Timestamp(md, prev) ==
    IF "AcquisitionDate" \in DOMAIN md
    THEN IF "AcquisitionTime" \in DOMAIN md
         THEN Combine(md.AcquisitionDate, md.AcquisitionTime)
         ELSE Midnight(md.AcquisitionDate)
    ELSE prev

\* Variant: the record is filed under its image identifier.
SeriesKeyImage(md) == md.SOPInstanceUID

\* The key under which a record is filed.
SeriesKey(md) == md.SeriesInstanceUID

\* Variant: the upper end of the interval is seeded with the date alone.
NewMetadataMaxDateOnly(md, ts) ==
    [SeriesNumber           |-> Counter(<<md.SeriesNumber>>),
     SeriesDescription      |-> Counter(<<md.SeriesDescription>>),
     ImageType              |-> Counter(md.ImageType),
     MinAcquisitionDateTime |-> ts,
     MaxAcquisitionDateTime |-> Midnight(ts[1])]

\* Variant: the ImageType table is seeded from the description.
NewMetadataTypeFromDescription(md, ts) ==
    [SeriesNumber           |-> Counter(<<md.SeriesNumber>>),
     SeriesDescription      |-> Counter(<<md.SeriesDescription>>),
     ImageType              |-> Counter(<<md.SeriesDescription>>),
     MinAcquisitionDateTime |-> ts,
     MaxAcquisitionDateTime |-> ts]

\* The metadata dictionary built for the first record of a series.
NewMetadata(md, ts) ==
    [SeriesNumber           |-> Counter(<<md.SeriesNumber>>),
     SeriesDescription      |-> Counter(<<md.SeriesDescription>>),
     ImageType              |-> Counter(md.ImageType),
     MinAcquisitionDateTime |-> ts,
     MaxAcquisitionDateTime |-> ts]

\* Series(metadata, {image_uid: relpath})
NewSeries(md, ts, relpath) ==
    [metadata |-> NewMetadata(md, ts), images |-> (md.SOPInstanceUID :> relpath)]

\* The values of a series' metadata that are Counters; the two datetimes are not.
IsCounter(x) == x \notin {"MinAcquisitionDateTime", "MaxAcquisitionDateTime"}

\* for x in metadata: ... over the keys xs still to visit, where metadata is
\* whatever the name is bound to when the loop starts.  Calling update on a
\* datetime raises AttributeError.
RECURSIVE OptionalMetadata(_, _, _)
OptionalMetadata(meta, metadata, xs) ==
    IF xs = {} THEN [meta |-> meta, raises |-> ""]
    ELSE LET x == CHOOSE k \in xs : TRUE
         IN  IF x \in NamedKeys
             THEN OptionalMetadata(meta, metadata, xs \ {x})
             ELSE IF x \in DOMAIN meta
             THEN IF IsCounter(x)
                  THEN OptionalMetadata([meta EXCEPT ![x] = Incr(@, metadata[x])],
                                        metadata, xs \ {x})
                  ELSE [meta |-> meta, raises |-> "AttributeError"]
             ELSE OptionalMetadata(meta @@ (x :> Counter(<<metadata[x]>>)),
                                   metadata, xs \ {x})

\* The branch taken for a series_uid not yet in series_dict.  The name
\* metadata is rebound to the new dictionary, so the loop over the optional
\* metadata runs over the keys of that dictionary.
FirstOfSeries(sd, md, ts, relpath) ==
    IF ts = Unbound
    THEN [sd |-> sd, raises |-> "UnboundLocalError"]
    ELSE LET s    == NewSeries(md, ts, relpath)
             opt  == OptionalMetadata(s.metadata, s.metadata, DOMAIN s.metadata)
         IN  [sd     |-> sd @@ (SeriesKey(md) :> [s EXCEPT !.metadata = opt.meta]),
              raises |-> opt.raises]

\* The branch taken for a series_uid already in series_dict: the SeriesNumber
\* counter is updated, then the next statement reads the unbound name
\* SeriesDescription.
LaterOfSeries(sd, md, ts, relpath) ==
    [sd     |-> [sd EXCEPT ![SeriesKey(md)].metadata.SeriesNumber =
                               Incr(@, md.SeriesNumber)],
     raises |-> "NameError"]

\* Variant: a record that lacks a compulsory key is passed over.
MissingKeySkipped(sd, prev) == [sd |-> sd, ts |-> prev, raises |-> ""]

\* metadata['...'] on a record that lacks one of the compulsory keys: KeyError
\* leaves the loop with series_dict and timestamp as they were.
MissingKey(sd, prev) == [sd |-> sd, ts |-> prev, raises |-> "KeyError"]

\* One iteration of the loop over the yielded pairs.
FoldRecord(sd, prev, md, relpath) ==
    IF ~HasCompulsory(md)
    THEN MissingKey(sd, prev)
    ELSE LET ts == Timestamp(md, prev)
             r  == IF SeriesKey(md) \notin DOMAIN sd
                   THEN FirstOfSeries(sd, md, ts, relpath)
                   ELSE LaterOfSeries(sd, md, ts, relpath)
         IN  [sd |-> r.sd, ts |-> ts, raises |-> r.raises]

\* The whole loop over the pairs ps, from series_dict sd and timestamp prev:
\* the dictionary it ends with and the exception that ended it, if any.
RECURSIVE FoldAll(_, _, _)
FoldAll(sd, prev, ps) ==
    IF ps = <<>> THEN [sd |-> sd, raises |-> ""]
    ELSE LET r == FoldRecord(sd, prev, Metadata(Head(ps).content), Head(ps).relpath)
         IN  IF r.raises # "" THEN [sd |-> r.sd, raises |-> r.raises]
             ELSE FoldAll(r.sd, r.ts, Tail(ps))

Last(s) == s[Len(s)]

\* report_image_data folds the pair just yielded; an exception ends the run.
Fold ==
    /\ pc = "fold" /\ entry = "report_image_data"
    /\ LET r == FoldRecord(series_dict, timestamp, Metadata(Last(yielded).content),
                           Last(yielded).relpath)
       IN  /\ series_dict' = r.sd
           /\ timestamp' = r.ts
           /\ outcome' = r.raises
           /\ pc' = IF r.raises = "" THEN "walk" ELSE "done"
    /\ UNCHANGED <<entry, force, tree, wpc, di, fi, n, log, decoded, yielded>>

\* return series_dict, once the generator is exhausted
Return ==
    /\ pc = "stop" /\ entry = "report_image_data"
    /\ outcome' = "returned"
    /\ pc' = "done"
    /\ UNCHANGED <<entry, force, tree, wpc, di, fi, n, log, decoded, yielded,
                   series_dict, timestamp>>

(***************************************************************************)
(* A caller that iterates walk_image_data itself.                          *)
(***************************************************************************)
\* the caller takes the pair and asks for the next one
Resume ==
    /\ pc = "fold" /\ entry = "walk_image_data"
    /\ pc' = "walk"
    /\ UNCHANGED <<entry, force, tree, wpc, di, fi, n, log, decoded, yielded,
                   series_dict, timestamp, outcome>>

\* the generator is exhausted
Exhausted ==
    /\ pc = "stop" /\ entry = "walk_image_data"
    /\ outcome' = "exhausted"
    /\ pc' = "done"
    /\ UNCHANGED <<entry, force, tree, wpc, di, fi, n, log, decoded, yielded,
                   series_dict, timestamp>>

Next ==
    \/ Call
    \/ WalkStart
    \/ EnterDir
    \/ LeaveDir
    \/ SkipDicomdir
    \/ ReadFailsLogged
    \/ ReadFailsRaises
    \/ Yield
    \/ WalkEnd
    \/ Fold
    \/ Return
    \/ Resume
    \/ Exhausted

Spec == Init /\ [][Next]_vars


(***************************************************************************)
(* Properties                                                              *)
(***************************************************************************)
\* The files of a tree in the order the walk visits them.
RECURSIVE WalkOrder(_)
WalkOrder(t) ==
    IF t = <<>> THEN <<>>
    ELSE [i \in 1..Len(Head(t).files) |->
             [name    |-> Head(t).files[i].name,
              content |-> Head(t).files[i].content,
              abspath |-> Head(t).root \o <<Head(t).files[i].name>>]]
         \o WalkOrder(Tail(t))

RelativeTo(p) == SubSeq(p, Len(path) + 1, Len(p))

\* The files the decoder parses in force mode f, DICOMDIR files left out, as
\* the pairs a complete walk yields.
ParsedFiles(f) ==
    LET keep(x) == x.name # "DICOMDIR" /\ DecodeFailure(x.content, f) = ""
        fs      == SelectSeq(WalkOrder(tree), keep)
    IN  [i \in 1..Len(fs) |-> [content |-> fs[i].content,
                               relpath |-> RelativeTo(fs[i].abspath)]]

Range(s) == { s[i] : i \in 1..Len(s) }

RequiredFields ==
    {"SeriesInstanceUID", "SOPInstanceUID", "SeriesNumber", "SeriesDescription",
     "ImageType"}

Complete(c) == RequiredFields \subseteq DOMAIN Metadata(c)

\* Every file of the tree other than DICOMDIR decodes in force mode to a
\* record with all the required fields.
AllFilesValid ==
    \A x \in Range(WalkOrder(tree)) :
        x.name # "DICOMDIR" => DecodeFailure(x.content, TRUE) = "" /\ Complete(x.content)

RECURSIVE SumOver(_, _)
SumOver(c, ks) ==
    IF ks = {} THEN 0
    ELSE LET k == CHOOSE x \in ks : TRUE IN c[k] + SumOver(c, ks \ {k})

\* The sum of the counts of a frequency table.
Total(c) == SumOver(c, DOMAIN c)

Reporting == entry = "report_image_data"
Walking == entry = "walk_image_data"
Finished == pc = "done"

\* The record being folded when pc = "fold".
Folded == Metadata(Last(yielded).content)

----------------------------------------------------------------------------
\* C1: for every tree whose files either decode to a record with all the
\* required fields or fail with one of the three decoder failures,
\* report_image_data returns, and the keys of the mapping it returns are
\* exactly the SeriesInstanceUID values of the decoded non-DICOMDIR files.
C1_ReportReturnsEverySeries ==
    (Reporting /\ Finished /\ \A p \in Range(ParsedFiles(TRUE)) : Complete(p.content))
    => /\ outcome = "returned"
       /\ DOMAIN series_dict =
              { Metadata(p.content).SeriesInstanceUID : p \in Range(ParsedFiles(TRUE)) }

----------------------------------------------------------------------------
\* C2: whichever of the three failures the decoder reports for a file, no
\* exception leaves walk_image_data, the file is not yielded, and the walk
\* goes on: a finished walk is an exhausted one that has yielded, in order,
\* exactly the files that decode.
C2_WalkSurvivesDecodeFailures ==
    (Walking /\ Finished)
    => /\ outcome = "exhausted"
       /\ yielded = ParsedFiles(force)

----------------------------------------------------------------------------
\* C3: for the valid decodable files that share a SeriesInstanceUID, the
\* series returned for it has one image per distinct SOPInstanceUID among
\* them, and its SeriesNumber counts sum to the number of those files.
C3_OneImagePerSOPAndCountsSum ==
    (Reporting /\ Finished /\ AllFilesValid)
    => \A p \in Range(ParsedFiles(TRUE)) :
          LET s    == Metadata(p.content).SeriesInstanceUID
              same == { i \in 1..Len(ParsedFiles(TRUE)) :
                          Metadata(ParsedFiles(TRUE)[i].content).SeriesInstanceUID = s }
          IN  /\ outcome = "returned"
              /\ s \in DOMAIN series_dict
              /\ DOMAIN series_dict[s].images =
                     { Metadata(ParsedFiles(TRUE)[i].content).SOPInstanceUID : i \in same }
              /\ Total(series_dict[s].metadata.SeriesNumber) = Cardinality(same)

----------------------------------------------------------------------------
\* C4: every series in series_dict, which holds a series only once an image
\* has been folded into it, has MinAcquisitionDateTime no later than
\* MaxAcquisitionDateTime.
C4_MinNotAfterMax ==
    \A s \in DOMAIN series_dict :
        ~Before(series_dict[s].metadata.MaxAcquisitionDateTime,
                series_dict[s].metadata.MinAcquisitionDateTime)

\* A record that carries both a date and a time has been folded into a series.
C4_Witness ==
    /\ Reporting /\ Finished /\ yielded # <<>>
    /\ "AcquisitionTime" \in DOMAIN Folded
    /\ Folded.SeriesInstanceUID \in DOMAIN series_dict

----------------------------------------------------------------------------
\* C5: a file named DICOMDIR, in whichever directory and whatever its content,
\* is never passed to read_metadata and never yielded, and no series holds an
\* image from it or exists on its account.
C5_DicomdirNeverRead ==
    /\ \A i \in 1..Len(decoded) : Last(decoded[i].abspath) # "DICOMDIR"
    /\ \A i \in 1..Len(yielded) : Last(yielded[i].relpath) # "DICOMDIR"
    /\ \A s \in DOMAIN series_dict :
          /\ \A im \in DOMAIN series_dict[s].images :
                Last(series_dict[s].images[im]) # "DICOMDIR"
          /\ \E i \in 1..Len(yielded) :
                Metadata(yielded[i].content).SeriesInstanceUID = s

\* The walk has passed a DICOMDIR below the root whose content would decode to
\* series S2, and a file read after it has been folded into another series.
C5_Witness ==
    /\ Reporting /\ Finished
    /\ \E i \in 1..Len(tree[2].files) :
          /\ tree[2].files[i].name = "DICOMDIR"
          /\ tree[2].files[i].content = "X"
          /\ di = 2 /\ fi > i + 1
    /\ DOMAIN series_dict = {"S1"}

----------------------------------------------------------------------------
\* C6: folding a decoded record that lacks a required field raises KeyError to
\* the caller: the run ends at that record with series_dict as it was, and
\* nothing is returned then or later.
C6_MissingFieldAborts ==
    [][ /\ (pc = "fold" /\ Reporting /\ ~(RequiredFields \subseteq DOMAIN Folded))
           => (pc' = "done" /\ outcome' = "KeyError" /\ series_dict' = series_dict)
        /\ outcome = "KeyError" => UNCHANGED vars ]_vars

\* The run has ended with the KeyError of a record without SeriesNumber.
C6_Witness ==
    /\ Reporting /\ Finished /\ outcome = "KeyError"
    /\ yielded # <<>> /\ "SeriesNumber" \notin DOMAIN Folded

----------------------------------------------------------------------------
\* C7: when two records of a series carry the same SOPInstanceUID with
\* different paths, the images of the series returned hold, for that
\* identifier, the path of the record processed last.
C7_LastWriteWins ==
    LET ps == ParsedFiles(TRUE)
        twin(i, j) ==
            /\ Metadata(ps[i].content).SeriesInstanceUID
                 = Metadata(ps[j].content).SeriesInstanceUID
            /\ Metadata(ps[i].content).SOPInstanceUID
                 = Metadata(ps[j].content).SOPInstanceUID
    IN  (Reporting /\ Finished /\ AllFilesValid)
        => \A i, j \in 1..Len(ps) :
              (i < j /\ twin(i, j) /\ ps[i].relpath # ps[j].relpath
                 /\ \A k \in (j + 1)..Len(ps) : ~twin(j, k))
              => /\ outcome = "returned"
                 /\ Metadata(ps[j].content).SeriesInstanceUID \in DOMAIN series_dict
                 /\ series_dict[Metadata(ps[j].content).SeriesInstanceUID]
                        .images[Metadata(ps[j].content).SOPInstanceUID] = ps[j].relpath

----------------------------------------------------------------------------
----------------------------------------------------------------------------
\* The frequency tables and the interval of every series of a dictionary.
Statistics(sd) == [s \in DOMAIN sd |-> sd[s].metadata]

\* The orders in which a sequence of pairs can be yielded.
Orders(ps) ==
    { [i \in 1..Len(ps) |-> ps[q[i]]] : q \in Permutations(1..Len(ps)) }

\* C9: in whichever order the walker yields the records of a tree (two or
\* more, so that there are orders to compare), report_image_data produces the
\* same frequency tables and the same interval for every series.
C9_OrderDoesNotMatter ==
    (Reporting /\ Finished /\ AllFilesValid /\ Len(ParsedFiles(TRUE)) >= 2)
    => \A qs \in Orders(ParsedFiles(TRUE)) :
          LET r == FoldAll(EmptyDict, Unbound, qs)
          IN  /\ outcome = "returned"
              /\ r.raises = ""
              /\ Statistics(r.sd) = Statistics(series_dict)

----------------------------------------------------------------------------
\* C10: for a tree without files, report_image_data returns an empty mapping,
\* and the log of walk_image_data is one scan-start record followed by one
\* completion record whose file count is 0.
C10_EmptyTree ==
    (Finished /\ TotalFiles(tree) = 0)
    => /\ Len(log) = 2
       /\ log[1].level = "info" /\ log[1].msg = "start processing files"
       /\ log[2].level = "info" /\ log[2].msg = "processed files" /\ log[2].count = 0
       /\ Reporting => (outcome = "returned" /\ DOMAIN series_dict = {})

\* report_image_data has returned from a tree without files.
C10_Witness ==
    Reporting /\ Finished /\ TotalFiles(tree) = 0 /\ outcome = "returned"


----------------------------------------------------------------------------
\* The record md carries the value v in the field f (as one of its tags, for
\* ImageType).
Carries(md, f, v) ==
    /\ f \in DOMAIN md
    /\ IF f = "ImageType" THEN \E j \in 1..Len(md[f]) : md[f][j] = v ELSE md[f] = v

\* The yielded records of the series s.
RecordsOf(s) ==
    { i \in 1..Len(yielded) : Metadata(yielded[i].content).SeriesInstanceUID = s }

IntervalKeys == {"MinAcquisitionDateTime", "MaxAcquisitionDateTime"}

\* C11: every value counted in a frequency table of a series was carried in
\* that field by a record folded into that series, and a table exists under
\* a field name only if a record of the series carried that field.
C11_TablesHoldObservedValues ==
    \A s \in DOMAIN series_dict :
        \A f \in (DOMAIN series_dict[s].metadata) \ IntervalKeys :
            /\ \E i \in RecordsOf(s) : f \in DOMAIN Metadata(yielded[i].content)
            /\ \A v \in DOMAIN series_dict[s].metadata[f] :
                  series_dict[s].metadata[f][v] > 0
                  => \E i \in RecordsOf(s) : Carries(Metadata(yielded[i].content), f, v)

\* A record with two different tags has been folded: its series has both in
\* its ImageType table.
C11_Witness ==
    /\ Reporting /\ Finished
    /\ "S1" \in DOMAIN series_dict
    /\ DOMAIN series_dict["S1"].metadata.ImageType = {"ORIGINAL", "PRIMARY"}

----------------------------------------------------------------------------
----------------------------------------------------------------------------
\* The instant a record with an AcquisitionDate stands for: date and time, or
\* midnight of the date.
Instant(md) ==
    IF "AcquisitionTime" \in DOMAIN md
    THEN <<md.AcquisitionDate, md.AcquisitionTime>>
    ELSE <<md.AcquisitionDate, 0>>

Earlier(t1, t2) == t1[1] < t2[1] \/ (t1[1] = t2[1] /\ t1[2] < t2[2])

\* The instants of the dated records of the series s.
InstantsOf(s) ==
    { Instant(Metadata(yielded[i].content)) :
        i \in { j \in RecordsOf(s) : "AcquisitionDate" \in DOMAIN Metadata(yielded[j].content) } }

\* C13: the interval of every series spans exactly the instants of its own
\* dated records, and a record without AcquisitionDate is folded without a
\* timestamp: the fold goes through and changes no series' interval.
C13_IntervalFromOwnRecords ==
    Reporting =>
      /\ \A s \in DOMAIN series_dict :
            InstantsOf(s) # {}
            => /\ series_dict[s].metadata.MinAcquisitionDateTime \in InstantsOf(s)
               /\ series_dict[s].metadata.MaxAcquisitionDateTime \in InstantsOf(s)
               /\ \A t \in InstantsOf(s) :
                     /\ ~Earlier(t, series_dict[s].metadata.MinAcquisitionDateTime)
                     /\ ~Earlier(series_dict[s].metadata.MaxAcquisitionDateTime, t)
      /\ (yielded # <<>> /\ pc # "fold" /\ Complete(Last(yielded).content)
            /\ "AcquisitionDate" \notin DOMAIN Folded)
         => outcome \in {"", "returned"}

----------------------------------------------------------------------------
RECURSIVE SumOf(_, _)
SumOf(F(_), S) ==
    IF S = {} THEN 0
    ELSE LET x == CHOOSE y \in S : TRUE IN F(x) + SumOf(F, S \ {x})

\* How often the tag v occurs in the sequence tags.
Occurrences(tags, v) == Cardinality({ j \in 1..Len(tags) : tags[j] = v })

\* C14: for a series with a first record and later ones, once the run has
\* folded them all the SeriesDescription table gives for each description the
\* number of the series' records bearing it, and the ImageType table gives
\* for each tag the number of its occurrences in those records.
C14_DescriptionAndTypeCounts ==
    LET ps == ParsedFiles(TRUE)
        md(i) == Metadata(ps[i].content)
    IN  (Reporting /\ Finished /\ AllFilesValid)
        => \A i, j \in 1..Len(ps) :
              (i < j /\ md(i).SeriesInstanceUID = md(j).SeriesInstanceUID)
              => LET s    == md(i).SeriesInstanceUID
                     same == { k \in 1..Len(ps) : md(k).SeriesInstanceUID = s }
                     tagcount(v) ==
                         LET occ(k) == Occurrences(md(k).ImageType, v)
                         IN  SumOf(occ, same)
                 IN  /\ outcome = "returned"
                     /\ s \in DOMAIN series_dict
                     /\ \A k \in same :
                           /\ md(k).SeriesDescription
                                \in DOMAIN series_dict[s].metadata.SeriesDescription
                           /\ series_dict[s].metadata.SeriesDescription[md(k).SeriesDescription]
                                = Cardinality({ l \in same : md(l).SeriesDescription
                                                              = md(k).SeriesDescription })
                           /\ \A t \in 1..Len(md(k).ImageType) :
                                 /\ md(k).ImageType[t]
                                      \in DOMAIN series_dict[s].metadata.ImageType
                                 /\ series_dict[s].metadata.ImageType[md(k).ImageType[t]]
                                      = tagcount(md(k).ImageType[t])

----------------------------------------------------------------------------
\* The fields the aggregation names itself; every other field is optional
\* metadata.
NamedFields ==
    {"SeriesInstanceUID", "SOPInstanceUID", "SeriesNumber", "SeriesDescription",
     "ImageType", "AcquisitionDate", "AcquisitionTime"}

\* C15: every other field of a record folded into a series, first or later,
\* is counted under its own name in that series: the table is there and its
\* count for the value is the number of the series' records carrying it.
C15_OptionalFieldsCounted ==
    \A s \in DOMAIN series_dict :
        \A i \in RecordsOf(s) :
            \A f \in (DOMAIN Metadata(yielded[i].content)) \ NamedFields :
                /\ f \in DOMAIN series_dict[s].metadata
                /\ series_dict[s].metadata[f][Metadata(yielded[i].content)[f]]
                     = Cardinality({ j \in RecordsOf(s) :
                                       /\ f \in DOMAIN Metadata(yielded[j].content)
                                       /\ Metadata(yielded[j].content)[f]
                                            = Metadata(yielded[i].content)[f] })


----------------------------------------------------------------------------
\* C16: walk_image_data yields one pair, with the path relative to the root,
\* for each file other than DICOMDIR that the decoder parses, and nothing
\* else: a finished run has yielded exactly those pairs, in walk order.
\* (report_image_data folds each pair as it is yielded, before the generator
\* resumes; that order is the same by construction.)
C16_YieldsEveryParsedFile ==
    Finished => yielded = ParsedFiles(IF Reporting THEN TRUE ELSE force)

----------------------------------------------------------------------------
\* The content of the file at an absolute path of the tree.
ContentAt(abspath) ==
    (CHOOSE x \in Range(WalkOrder(tree)) : x.abspath = abspath).content

\* C18: the error records of the log are, in order, one for each read_metadata
\* call that failed, with that file's relative path and the failure's reason;
\* no other file has an error record.
C18_OneErrorPerFailedFile ==
    LET isError(r)  == r.level = "error"
        hasFailed(c) == DecodeFailure(ContentAt(c.abspath), c.force) # ""
        errors == SelectSeq(log, isError)
        failed == SelectSeq(decoded, hasFailed)
    IN  /\ Len(errors) = Len(failed)
        /\ \A i \in 1..Len(errors) :
              /\ errors[i].path = RelativeTo(failed[i].abspath)
              /\ errors[i].reason
                   = DecodeFailure(ContentAt(failed[i].abspath), failed[i].force)

----------------------------------------------------------------------------
====
